---- MODULE Spec2Model ----
(***************************************************************************)
(* Model of the audio feature-extraction engine (MLAudioAnalyzer), the     *)
(* spectral helpers of audioUtils and the plugin matcher (PluginMatcher).  *)
(*                                                                         *)
(* JavaScript numbers are modelled as records                              *)
(*     [k |-> "fin", v |-> n]   the finite value n / Scale                 *)
(*     [k |-> "inf", v |-> s]   +Infinity (s = 1) or -Infinity (s = -1)    *)
(*     [k |-> "nan", v |-> 0]   NaN                                        *)
(* Finite values are fixed-point with resolution 1/Scale; products and     *)
(* quotients truncate toward zero.  Division, comparison, min and max      *)
(* follow IEEE-754 on zero divisors, infinities and NaN.  The sign of zero *)
(* is not kept.  Loop counters, lengths and array indices are plain        *)
(* integers.                                                               *)
(***************************************************************************)
EXTENDS Integers, Sequences, FiniteSets, TLC

\* ------------------------------------------------------------------------
\* Bounds of the model
\* ------------------------------------------------------------------------

\* longest channel-0 buffer explored
MaxLen == 6

\* sample values explored, in units of 1/Scale
SampleValues == {-1000, 0, 500}

\* sample rates explored (Hz): below 800, and above 800 but no multiple of it.
\* Rates above 1000 would put length / sampleRate below the resolution 1/Scale.
SampleRates == {100, 1000}

\* ------------------------------------------------------------------------
\* Numbers
\* ------------------------------------------------------------------------

\* resolution of finite values
Scale == 1000

Fin(n) == [k |-> "fin", v |-> n]
NaN == [k |-> "nan", v |-> 0]
PInf == [k |-> "inf", v |-> 1]
NInf == [k |-> "inf", v |-> -1]
Zero == Fin(0)
One == Fin(Scale)
FromInt(i) == Fin(i * Scale)

IsNaN(x) == x.k = "nan"
IsFinite(x) == x.k = "fin"

AbsI(i) == IF i < 0 THEN -i ELSE i
SgnI(i) == IF i < 0 THEN -1 ELSE IF i > 0 THEN 1 ELSE 0
MinI(a, b) == IF a < b THEN a ELSE b
MaxI(a, b) == IF a > b THEN a ELSE b

\* truncating integer quotient (b > 0)
QuoI(a, b) == SgnI(a) * (AbsI(a) \div b)

\* a * b / Scale on non-negative integers, split so that no intermediate
\* product leaves the 32-bit range of the model checker
MulNat(a, b) ==
  LET a1 == a \div Scale
      a0 == a % Scale
      b1 == b \div Scale
      b0 == b % Scale
  IN a1 * b1 * Scale + a1 * b0 + a0 * b1 + ((a0 * b0) \div Scale)

\* a * Scale / b on non-negative integers, b > 0
DivNat(a, b) ==
  LET q == a \div b
      r == a % b
  IN IF b < 2000000
       THEN q * Scale + ((r * Scale) \div b)
       ELSE q * Scale + (r \div (b \div Scale))

Neg(x) == IF x.k = "nan" THEN NaN ELSE [k |-> x.k, v |-> -x.v]

Add(x, y) ==
  IF IsNaN(x) \/ IsNaN(y) THEN NaN
  ELSE IF x.k = "inf" /\ y.k = "inf" THEN (IF x.v = y.v THEN x ELSE NaN)
  ELSE IF x.k = "inf" THEN x
  ELSE IF y.k = "inf" THEN y
  ELSE Fin(x.v + y.v)

Sub(x, y) == Add(x, Neg(y))

Mul(x, y) ==
  IF IsNaN(x) \/ IsNaN(y) THEN NaN
  ELSE IF x.k = "inf" \/ y.k = "inf"
    THEN (IF x.v = 0 \/ y.v = 0 THEN NaN
          ELSE [k |-> "inf", v |-> SgnI(x.v) * SgnI(y.v)])
  ELSE Fin(SgnI(x.v) * SgnI(y.v) * MulNat(AbsI(x.v), AbsI(y.v)))

Div(x, y) ==
  IF IsNaN(x) \/ IsNaN(y) THEN NaN
  ELSE IF x.k = "inf"
    THEN (IF y.k = "inf" THEN NaN
          ELSE [k |-> "inf", v |-> x.v * (IF y.v < 0 THEN -1 ELSE 1)])
  ELSE IF y.k = "inf" THEN Zero
  ELSE IF y.v = 0
    THEN (IF x.v = 0 THEN NaN ELSE [k |-> "inf", v |-> SgnI(x.v)])
  ELSE Fin(SgnI(x.v) * SgnI(y.v) * DivNat(AbsI(x.v), AbsI(y.v)))

\* x < y; false when either is NaN
Lt(x, y) ==
  IF IsNaN(x) \/ IsNaN(y) THEN FALSE
  ELSE IF x.k = "inf" THEN x.v < 0 /\ ~(y.k = "inf" /\ y.v < 0)
  ELSE IF y.k = "inf" THEN y.v > 0
  ELSE x.v < y.v

Gt(x, y) == Lt(y, x)
Le(x, y) == ~IsNaN(x) /\ ~IsNaN(y) /\ ~Lt(y, x)
Ge(x, y) == Le(y, x)

\* Math.min, Math.max: NaN if either argument is NaN
Min(x, y) == IF IsNaN(x) \/ IsNaN(y) THEN NaN ELSE IF Lt(y, x) THEN y ELSE x
Max(x, y) == IF IsNaN(x) \/ IsNaN(y) THEN NaN ELSE IF Lt(x, y) THEN y ELSE x

\* Math.abs
Abs(x) == IF x.k = "nan" THEN NaN ELSE [k |-> x.k, v |-> AbsI(x.v)]

\* largest r with r * r <= n
RECURSIVE ISqrtIn(_, _, _)
ISqrtIn(n, lo, hi) ==
  IF lo >= hi THEN lo
  ELSE LET mid == (lo + hi + 1) \div 2
       IN IF mid * mid <= n THEN ISqrtIn(n, mid, hi) ELSE ISqrtIn(n, lo, mid - 1)

ISqrt(n) == ISqrtIn(n, 0, 46340)

\* Math.sqrt
Sqrt(x) ==
  IF IsNaN(x) THEN NaN
  ELSE IF x.k = "inf" THEN (IF x.v > 0 THEN PInf ELSE NaN)
  ELSE IF x.v < 0 THEN NaN
  ELSE IF x.v < 2000000 THEN Fin(ISqrt(x.v * Scale))
  ELSE Fin(100 * ISqrt(x.v \div 10))

\* Math.floor and Math.round of a finite value, as an integer
FloorI(x) == x.v \div Scale
RoundI(x) == (2 * x.v + Scale) \div (2 * Scale)

\* ------------------------------------------------------------------------
\* Math.cos, Math.sin, Math.log, Math.log10, Math.log2, Math.pow
\* (series evaluated at the internal resolution 1/Fine)
\* ------------------------------------------------------------------------

\* internal resolution of the series
Fine == 10000

\* a * b / Fine on non-negative integers, without 32-bit overflow
MulFine(a, b) ==
  LET a1 == a \div Fine
      a0 == a % Fine
      b1 == b \div Fine
      b0 == b % Fine
  IN a1 * b1 * Fine + a1 * b0 + a0 * b1 + ((a0 * b0) \div Fine)

\* rounds a value in units of 1/Fine to units of 1/Scale
FineToScale(t) == (t + 5) \div 10

SquareFine(x) == MulFine(x, x)

\* the terms -x^2/2! + x^4/4! - ... - x^10/10! of the cosine series from term
\* i on, t being the magnitude of term i - 1 and x2 the square of x
RECURSIVE CosTerms(_, _, _)
CosTerms(x2, t, i) ==
  IF i > 5 THEN 0
  ELSE (IF i % 2 = 1 THEN -1 ELSE 1) * (MulFine(t, x2) \div ((2 * i - 1) * (2 * i)))
       + CosTerms(x2, MulFine(t, x2) \div ((2 * i - 1) * (2 * i)), i + 1)

\* cos(2 * pi * a / b) in units of 1/Fine, for 0 <= 4 * a <= b
CosQ(a, b) ==
  IF a = 0 THEN Fine
  ELSE IF 4 * a = b THEN 0
  ELSE Fine + CosTerms(SquareFine((62832 * a) \div b), Fine, 1)

\* cos(2 * pi * m / n) for integers m and n > 0, reduced to the first quadrant
CosSeries(m, n) ==
  LET r == m % n
      h == IF 2 * r > n THEN n - r ELSE r
      first == 4 * h <= n
  IN Fin((IF first THEN 1 ELSE -1)
           * FineToScale(CosQ(IF first THEN h ELSE n - 2 * h, IF first THEN n ELSE 2 * n)))

\* the values of CosSeries for the denominators the program uses most
\* (the 4 * 26 of the cosine transform of 26 mel bands and below)
CosTable == [n \in 1..104 |-> [m \in 0..(n - 1) |-> CosSeries(m, n)]]

\* Math.cos(2 * Math.PI * m / n) for integers m and n > 0
CosTurn(m, n) == IF n \in DOMAIN CosTable THEN CosTable[n][m % n] ELSE CosSeries(m, n)

\* Math.sin(2 * Math.PI * m / n) for integers m and n > 0
SinTurn(m, n) == CosTurn(4 * m - n, 4 * n)

\* halves or doubles v until Scale <= v < 2 * Scale; <<mantissa, exponent>>
RECURSIVE LnNorm(_, _)
LnNorm(v, e) ==
  IF v >= 2 * Scale THEN LnNorm(v \div 2, e + 1)
  ELSE IF v < Scale THEN LnNorm(2 * v, e - 1)
  ELSE <<v, e>>

\* the terms p/k + p*y2/(k+2) + ... of the series y + y^3/3 + y^5/5 + y^7/7
RECURSIVE LnTerms(_, _, _)
LnTerms(y2, p, k) ==
  IF k > 7 THEN 0 ELSE (p \div k) + LnTerms(y2, MulFine(p, y2), k + 2)

\* ln of a mantissa m / Scale in [1, 2): 2 * atanh((m - 1) / (m + 1))
LnMantissa(y) == 2 * LnTerms(SquareFine(y), y, 1)

\* ln(m * 2^e) for me = <<m, e>>, in units of 1/Fine
LnNormal(me) == me[2] * 6931 + LnMantissa(((me[1] - Scale) * Fine) \div (me[1] + Scale))

\* natural logarithm of v / Scale (v > 0), in units of 1/Fine
LnFine(v) == LnNormal(LnNorm(v, 0))

\* Math.log
Ln(x) ==
  IF IsNaN(x) THEN NaN
  ELSE IF x.k = "inf" THEN (IF x.v > 0 THEN PInf ELSE NaN)
  ELSE IF x.v < 0 THEN NaN
  ELSE IF x.v = 0 THEN NInf
  ELSE Fin(FineToScale(LnFine(x.v)))

\* Math.log10
Log10(x) ==
  IF IsFinite(x) /\ x.v > 0
    THEN Fin(QuoI(LnFine(x.v) * Scale, 23026))
    ELSE Ln(x)

\* Math.log2
Log2(x) ==
  IF IsFinite(x) /\ x.v > 0
    THEN Fin(QuoI(LnFine(x.v) * Scale, 6931))
    ELSE Ln(x)

\* the terms t^k/k! + ... + t^6/6! of the exponential series, p being the
\* term before them
RECURSIVE ExpTerms(_, _, _)
ExpTerms(t, p, k) ==
  IF k > 6 THEN 0
  ELSE (MulFine(p, t) \div k) + ExpTerms(t, MulFine(p, t) \div k, k + 1)

\* e^(t / Fine) from h = e^((t \div 2) / Fine)
ExpDouble(h, odd) ==
  IF odd THEN SquareFine(h) + (SquareFine(h) \div Fine) ELSE SquareFine(h)

\* e^(t / Fine) in units of 1/Fine, t any integer
RECURSIVE ExpFine(_)
ExpFine(t) ==
  IF t < 0 THEN (Fine * Fine) \div MaxI(ExpFine(-t), 1)
  ELSE IF t > Fine \div 2 THEN ExpDouble(ExpFine(t \div 2), t % 2 = 1)
  ELSE Fine + t + ExpTerms(t, t, 2)

\* Math.exp of a finite value
Exp(x) == Fin(FineToScale(ExpFine(x.v * 10)))

\* Math.pow(x, y) for finite x >= 0 and finite y
Pow(x, y) ==
  IF IsNaN(x) \/ IsNaN(y) THEN NaN
  ELSE IF y.v = 0 THEN One
  ELSE IF x.v = 0 THEN (IF y.v > 0 THEN Zero ELSE PInf)
  ELSE Fin(FineToScale(ExpFine(QuoI(y.v * LnFine(x.v), Scale))))

\* Math.round and Math.floor as numbers
Round(x) == IF IsFinite(x) THEN FromInt(RoundI(x)) ELSE x
Floor(x) == IF IsFinite(x) THEN FromInt(FloorI(x)) ELSE x

\* the JavaScript remainder a % b of integers (sign of the dividend), b > 0
RemJS(a, b) == SgnI(a) * (AbsI(a) % b)

\* the constant 1e-10 that guards logarithms and quotients: it lies below the
\* resolution of the model and is kept as its smallest positive value
Epsilon == Fin(1)

\* sum of a sequence of numbers, left to right from 0
RECURSIVE SumTo(_, _)
SumTo(s, n) == IF n = 0 THEN Zero ELSE Add(SumTo(s, n - 1), s[n])

SumSeq(s) == SumTo(s, Len(s))

\* an array built by a loop, as a sequence holding its computed elements
ToArray(f) == SubSeq(f, 1, Len(f))

\* ------------------------------------------------------------------------
\* audioUtils: spectral helpers.  A spectrum is a sequence; bin i of the
\* code is element i + 1.
\* ------------------------------------------------------------------------

\* slice(0, end) returning the whole array
Slice_Whole(signal, end) == signal

\* TypedArray.prototype.slice(0, end)
Slice(signal, end) == SubSeq(signal, 1, MinI(end, Len(signal)))

\* real and imag of performFFT after the inner loop for bin k, the angle being
\* -2 * Math.PI * k * n / N
FFTReal(signal, k) ==
  SumSeq([n \in 1..Len(signal) |-> Mul(signal[n], CosTurn(-(k * (n - 1)), Len(signal)))])

FFTImag(signal, k) ==
  SumSeq([n \in 1..Len(signal) |-> Mul(signal[n], SinTurn(-(k * (n - 1)), Len(signal)))])

\* Math.sqrt(real * real + imag * imag)
Magnitude(real, imag) == Sqrt(Add(Mul(real, real), Mul(imag, imag)))

\* performFFT keeping the bin the loop computes for k = floor(N / 2) when N is
\* odd: ceil(N / 2) elements
performFFT_CeilBins(signal) ==
  ToArray([b \in 1..((Len(signal) + 1) \div 2) |->
     Magnitude(FFTReal(signal, b - 1), FFTImag(signal, b - 1))])

\* new Float32Array(N / 2) has floor(N / 2) elements; the loop also runs for
\* k = floor(N / 2) when N is odd, and that write falls outside the array
performFFT(signal) ==
  ToArray([b \in 1..(Len(signal) \div 2) |->
     Magnitude(FFTReal(signal, b - 1), FFTImag(signal, b - 1))])

\* (i * sampleRate) / (2 * spectrum.length)
BinFrequency(i, sampleRate, length) == Div(FromInt(i * sampleRate), FromInt(2 * length))

calculateSpectralCentroid(spectrum, sampleRate) ==
  LET L == Len(spectrum)
      weightedSum == SumSeq([b \in 1..L |-> Mul(BinFrequency(b - 1, sampleRate, L), spectrum[b])])
      magnitudeSum == SumSeq(spectrum)
  IN IF Gt(magnitudeSum, Zero) THEN Div(weightedSum, magnitudeSum) ELSE Zero

\* first bin (from i) whose cumulative energy reaches rolloffEnergy, or
\* spectrum.length when the loop ends without returning
RECURSIVE RolloffBin(_, _, _, _)
RolloffBin(spectrum, i, cumulativeBefore, rolloffEnergy) ==
  IF i >= Len(spectrum) THEN Len(spectrum)
  ELSE LET cumulativeEnergy == Add(cumulativeBefore, Mul(spectrum[i + 1], spectrum[i + 1]))
       IN IF Ge(cumulativeEnergy, rolloffEnergy) THEN i
          ELSE RolloffBin(spectrum, i + 1, cumulativeEnergy, rolloffEnergy)

\* RolloffBin accumulating the magnitudes instead of their squares
RECURSIVE RolloffBin_Magnitudes(_, _, _, _)
RolloffBin_Magnitudes(spectrum, i, cumulativeBefore, rolloffEnergy) ==
  IF i >= Len(spectrum) THEN Len(spectrum)
  ELSE IF Ge(Add(cumulativeBefore, spectrum[i + 1]), rolloffEnergy) THEN i
       ELSE RolloffBin_Magnitudes(spectrum, i + 1, Add(cumulativeBefore, spectrum[i + 1]),
                                  rolloffEnergy)

\* calculateSpectralRolloff on magnitudes instead of squared magnitudes
calculateSpectralRolloff_Magnitudes(spectrum, sampleRate, threshold) ==
  LET L == Len(spectrum)
      i == RolloffBin_Magnitudes(spectrum, 0, Zero, Mul(SumSeq(spectrum), threshold))
  IN IF i < L THEN BinFrequency(i, sampleRate, L)
     ELSE Div(FromInt(sampleRate), FromInt(2))

calculateSpectralRolloff(spectrum, sampleRate, threshold) ==
  LET L == Len(spectrum)
      totalEnergy == SumSeq([b \in 1..L |-> Mul(spectrum[b], spectrum[b])])
      rolloffEnergy == Mul(totalEnergy, threshold)
      i == RolloffBin(spectrum, 0, Zero, rolloffEnergy)
  IN IF i < L THEN BinFrequency(i, sampleRate, L)
     ELSE Div(FromInt(sampleRate), FromInt(2))

A4_FREQ == 440

\* 12 * Math.log2(frequency / A4_FREQ) + 69
ChromaPitch(frequency) ==
  Add(Mul(FromInt(12), Log2(Div(frequency, FromInt(A4_FREQ)))), FromInt(69))

\* the pitch class a bin of this frequency is added to, or -1 when it is skipped
ChromaIndexOf(frequency) ==
  LET Class(chromaIndex) == IF chromaIndex >= 0 /\ chromaIndex < 12 THEN chromaIndex ELSE -1
  IN IF Gt(frequency, FromInt(80)) /\ Lt(frequency, FromInt(8000))
       THEN Class(RemJS(RoundI(ChromaPitch(frequency)), 12))
       ELSE -1

\* the pitch class bin i is added to, or -1 when the bin is skipped
ChromaIndex(i, sampleRate, length) == ChromaIndexOf(BinFrequency(i, sampleRate, length))

\* calculateChroma returning the class sums without dividing them by their sum
calculateChroma_Unnormalized(spectrum, sampleRate) ==
  ToArray([c \in 1..12 |->
     SumSeq([b \in 1..Len(spectrum) |->
        IF b >= 2 /\ ChromaIndex(b - 1, sampleRate, Len(spectrum)) = c - 1
          THEN spectrum[b] ELSE Zero])])

\* element c + 1 is chroma[c]
calculateChroma(spectrum, sampleRate) ==
  LET L == Len(spectrum)
      NormalizeBy(chroma, sum) ==
        IF Gt(sum, Zero) THEN ToArray([c \in 1..12 |-> Div(chroma[c], sum)]) ELSE chroma
      Normalize(chroma) == NormalizeBy(chroma, SumSeq(chroma))
  IN Normalize(ToArray([c \in 1..12 |->
        SumSeq([b \in 1..L |->
           IF b >= 2 /\ ChromaIndex(b - 1, sampleRate, L) = c - 1
             THEN spectrum[b] ELSE Zero])]))

\* ------------------------------------------------------------------------
\* MLAudioAnalyzer
\* ------------------------------------------------------------------------

frameSize == 2048

calculateSpectralBandwidth(spectrum, sampleRate, centroid) ==
  LET L == Len(spectrum)
      dev(b) == Sub(BinFrequency(b - 1, sampleRate, L), centroid)
      weightedVariance == SumSeq([b \in 1..L |-> Mul(spectrum[b], Mul(dev(b), dev(b)))])
      totalMagnitude == SumSeq(spectrum)
  IN IF Gt(totalMagnitude, Zero) THEN Sqrt(Div(weightedVariance, totalMagnitude)) ELSE Zero

\* the loop of calculateSpectralFlatness after bins 1..i:
\* <<geometricMean, arithmeticMean, validBins>>
RECURSIVE FlatnessLoop(_, _)
FlatnessLoop(spectrum, i) ==
  IF i < 1 THEN <<One, Zero, 0>>
  ELSE LET prev == FlatnessLoop(spectrum, i - 1)
       IN IF Gt(spectrum[i + 1], Zero)
            THEN <<Mul(prev[1], Pow(spectrum[i + 1], Div(One, FromInt(Len(spectrum))))),
                   Add(prev[2], spectrum[i + 1]),
                   prev[3] + 1>>
            ELSE prev

\* calculateSpectralFlatness without its validBins > 0 check
calculateSpectralFlatness_Unguarded(spectrum) ==
  LET Ratio(geometricMean, arithmeticSum, validBins) ==
        Div(geometricMean, Div(arithmeticSum, FromInt(validBins)))
      AtEnd(end) == Ratio(end[1], end[2], end[3])
  IN AtEnd(FlatnessLoop(spectrum, Len(spectrum) - 1))

\* arithmeticMean is the sum of the valid bins divided by validBins
calculateSpectralFlatness(spectrum) ==
  LET Ratio(geometricMean, arithmeticSum, validBins) ==
        IF validBins > 0
          THEN Div(geometricMean, Div(arithmeticSum, FromInt(validBins)))
          ELSE Zero
      AtEnd(end) == Ratio(end[1], end[2], end[3])
  IN AtEnd(FlatnessLoop(spectrum, Len(spectrum) - 1))

\* sum of signal[i] * signal[i + period] for 0 <= i < validSamples
Autocorr(signal, period) ==
  LET validSamples == Len(signal) - period
      autocorr == SumSeq([i \in 1..MaxI(validSamples, 0) |-> Mul(signal[i], signal[i + period])])
  IN Div(autocorr, FromInt(validSamples))

\* the search loop of findFundamentalFrequency after the periods
\* minPeriod..period: <<maxAutocorr, bestPeriod>>
RECURSIVE PeriodLoop(_, _, _)
PeriodLoop(signal, minPeriod, period) ==
  IF period < minPeriod THEN <<Zero, minPeriod>>
  ELSE LET Step(prev, autocorr) ==
             IF Gt(autocorr, prev[1]) THEN <<autocorr, period>> ELSE prev
       IN Step(PeriodLoop(signal, minPeriod, period - 1), Autocorr(signal, period))

findFundamentalFrequency(signal, sampleRate) ==
  LET minPeriod == sampleRate \div 800
      maxPeriod == sampleRate \div 80
      bestPeriod == PeriodLoop(signal, minPeriod, maxPeriod)[2]
  IN Div(FromInt(sampleRate), FromInt(bestPeriod))

\* Hz tolerance for harmonic detection
tolerance == 20

\* whether bin i counts as harmonic energy
IsHarmonicBin(i, length, fundamental, sampleRate) ==
  LET Near(frequency, harmonicNumber) ==
        /\ Lt(Abs(Sub(frequency, Mul(harmonicNumber, fundamental))), FromInt(tolerance))
        /\ Gt(harmonicNumber, Zero)
      Of(frequency) == Near(frequency, Round(Div(frequency, fundamental)))
  IN Of(BinFrequency(i, sampleRate, length))

\* calculateHarmonicity without its totalEnergy > 0 check
calculateHarmonicity_Unguarded(spectrum, fundamental, sampleRate) ==
  IF Le(fundamental, Zero) THEN Zero
  ELSE LET L == Len(spectrum)
           energy(b) == Mul(spectrum[b], spectrum[b])
           Ratio(harmonicEnergy, totalEnergy) ==
             Div(harmonicEnergy, totalEnergy)
       IN Ratio(SumSeq([b \in 1..L |->
                   IF IsHarmonicBin(b - 1, L, fundamental, sampleRate) THEN energy(b) ELSE Zero]),
                SumSeq([b \in 1..L |-> energy(b)]))

calculateHarmonicity(spectrum, fundamental, sampleRate) ==
  IF Le(fundamental, Zero) THEN Zero
  ELSE LET L == Len(spectrum)
           energy(b) == Mul(spectrum[b], spectrum[b])
           Ratio(harmonicEnergy, totalEnergy) ==
             IF Gt(totalEnergy, Zero) THEN Div(harmonicEnergy, totalEnergy) ELSE Zero
       IN Ratio(SumSeq([b \in 1..L |->
                   IF IsHarmonicBin(b - 1, L, fundamental, sampleRate) THEN energy(b) ELSE Zero]),
                SumSeq([b \in 1..L |-> energy(b)]))

hzToMel(hz) == Mul(FromInt(2595), Log10(Add(One, Div(hz, FromInt(700)))))

melToHz(mel) == Mul(FromInt(700), Sub(Pow(FromInt(10), Div(mel, FromInt(2595))), One))

numFilters == 26

\* binPoints of createMelFilterBank from melMin and melStep
MelBinPointsFrom(melMin, melStep, numBins, sampleRate) ==
  ToArray([p \in 1..(numFilters + 2) |->
     FloorI(Div(Mul(melToHz(Add(melMin, Mul(FromInt(p - 1), melStep))),
                    FromInt(numBins * 2)),
                FromInt(sampleRate)))])

\* binPoints of createMelFilterBank from melMin and melMax
MelBinPointsBetween(melMin, melMax, numBins, sampleRate) ==
  MelBinPointsFrom(melMin, Div(Sub(melMax, melMin), FromInt(numFilters + 1)),
                   numBins, sampleRate)

\* binPoints of createMelFilterBank: element i + 1 is binPoints[i],
\* 0 <= i <= numFilters + 1
MelBinPoints(numBins, sampleRate) ==
  MelBinPointsBetween(hzToMel(Zero), hzToMel(Div(FromInt(sampleRate), FromInt(2))),
                      numBins, sampleRate)

\* the values of MelBinPoints for the 1024 bins of a 2048-sample frame, at
\* the sample rates explored
MelBinPointsTable == [sr \in SampleRates |-> MelBinPoints(1024, sr)]

\* filterBank[i - 1][j] of createMelFilterBank, 1 <= i <= numFilters: the
\* rising edge over [binPoints[i-1], binPoints[i]), the falling edge over
\* [binPoints[i], binPoints[i+1]), 0 elsewhere
MelFilterWeight(binPoints, i, j) ==
  LET lo == binPoints[i]
      mid == binPoints[i + 1]
      hi == binPoints[i + 2]
  IN IF lo <= j /\ j < mid THEN Div(FromInt(j - lo), FromInt(mid - lo))
     ELSE IF mid <= j /\ j < hi THEN Div(FromInt(hi - j), FromInt(hi - mid))
     ELSE Zero

\* applyMelFilters over the filter bank of these binPoints: one sum per
\* filter, over the bins below min(spectrum.length, filter.length)
MelFiltered(spectrum, numBins, binPoints) ==
  ToArray([f \in 1..numFilters |->
     SumSeq([b \in 1..MinI(Len(spectrum), numBins) |->
        Mul(spectrum[b], MelFilterWeight(binPoints, f, b - 1))])])

\* applyMelFilters over createMelFilterBank(numBins, sampleRate)
applyMelFilters(spectrum, numBins, sampleRate) ==
  MelFiltered(spectrum, numBins,
              IF numBins = 1024 /\ sampleRate \in SampleRates
                THEN MelBinPointsTable[sampleRate]
                ELSE MelBinPoints(numBins, sampleRate))

\* discreteCosineTransform with one output per input band instead of one per
\* requested coefficient
discreteCosineTransform_AllBands(input, numCoefficients) ==
  ToArray([c \in 1..Len(input) |->
     SumSeq([n \in 1..Len(input) |->
        Mul(input[n], CosTurn((c - 1) * (2 * (n - 1) + 1), 4 * Len(input)))])])

discreteCosineTransform(input, numCoefficients) ==
  ToArray([c \in 1..numCoefficients |->
     SumSeq([n \in 1..Len(input) |->
        Mul(input[n], CosTurn((c - 1) * (2 * (n - 1) + 1), 4 * Len(input)))])])

\* default of extractMFCC's numCoefficients parameter
numCoefficients == 13

extractMFCC(signal, sampleRate, frame) ==
  LET logMelSpectrum(melSpectrum) ==
        ToArray([f \in 1..Len(melSpectrum) |-> Ln(Add(melSpectrum[f], Epsilon))])
  IN discreteCosineTransform(
       logMelSpectrum(applyMelFilters(performFFT(Slice(signal, frame)), frame \div 2, sampleRate)),
       numCoefficients)

extractChroma(signal, sampleRate, frame) ==
  calculateChroma(performFFT(Slice(signal, frame)), sampleRate)

\* <<major3rd, minor3rd, fifth>>
extractTonnetz(chroma) ==
  << SumSeq([i \in 1..12 |-> Mul(chroma[i], CosTurn(i - 1, 3))]),
     SumSeq([i \in 1..12 |-> Mul(chroma[i], SinTurn(i - 1, 3))]),
     SumSeq([i \in 1..12 |-> Mul(chroma[i], CosTurn(7 * (i - 1), 12))]) >>

\* the record extractSpectralFeatures returns, from its spectrum and centroid
SpectralFeaturesAround(spectrum, sampleRate, centroid) ==
  [centroid |-> centroid,
   bandwidth |-> calculateSpectralBandwidth(spectrum, sampleRate, centroid),
   rolloff |-> calculateSpectralRolloff(spectrum, sampleRate, Fin(850)),
   flatness |-> calculateSpectralFlatness(spectrum)]

\* the record extractSpectralFeatures returns, from its spectrum
SpectralFeaturesOf(spectrum, sampleRate) ==
  SpectralFeaturesAround(spectrum, sampleRate, calculateSpectralCentroid(spectrum, sampleRate))

extractSpectralFeatures(signal, frame, sampleRate) ==
  SpectralFeaturesOf(performFFT(Slice(signal, frame)), sampleRate)

\* number of i in 1..length-1 with (signal[i] > 0) !== (signal[i-1] > 0)
ZeroCrossings(signal) ==
  Cardinality({i \in 2..Len(signal) : Gt(signal[i], Zero) # Gt(signal[i - 1], Zero)})

extractTemporalFeatures(signal, sampleRate) ==
  LET zcr == Div(FromInt(ZeroCrossings(signal)),
                 Div(FromInt(Len(signal)), FromInt(sampleRate)))
      With(energy) == [zcr |-> zcr, energy |-> energy, rms |-> Sqrt(energy)]
  IN With(Div(SumSeq([i \in 1..Len(signal) |-> Mul(signal[i], signal[i])]),
              FromInt(Len(signal))))

\* the record extractHarmonicFeatures returns, from its spectrum and fundamental
HarmonicFeaturesOf(spectrum, fundamental, sampleRate) ==
  LET With(harmonicity) ==
        [harmonicity |-> harmonicity,
         inharmonicity |-> Sub(One, harmonicity),
         pitch |-> fundamental]
  IN With(calculateHarmonicity(spectrum, fundamental, sampleRate))

extractHarmonicFeatures(signal, sampleRate) ==
  HarmonicFeaturesOf(performFFT(Slice(signal, frameSize)),
                     findFundamentalFrequency(signal, sampleRate), sampleRate)

\* the record extractFeatures returns, from the chroma it has extracted
FeaturesWithChroma(channelData, sampleRate, chroma) ==
  [spectralFeatures |-> extractSpectralFeatures(channelData, frameSize, sampleRate),
   temporalFeatures |-> extractTemporalFeatures(channelData, sampleRate),
   harmonicFeatures |-> extractHarmonicFeatures(channelData, sampleRate),
   mfcc |-> extractMFCC(channelData, sampleRate, frameSize),
   chroma |-> chroma,
   tonnetz |-> extractTonnetz(chroma)]

\* the body of extractFeatures on channelData = audioBuffer.getChannelData(0)
\* and sampleRate = audioBuffer.sampleRate, the two things it reads
FeatureRecord(channelData, sampleRate) ==
  FeaturesWithChroma(channelData, sampleRate, extractChroma(channelData, sampleRate, frameSize))

\* the arguments of the performFFT invocations of one extractFeatures call, in
\* call order: extractSpectralFeatures (line 49), extractHarmonicFeatures (line
\* 102, with its own frameSize of 2048), extractMFCC (line 129) and
\* extractChroma (line 152) each slice the signal and transform it
performFFTCalls(channelData, frame) ==
  <<Slice(channelData, frame), Slice(channelData, frameSize),
    Slice(channelData, frame), Slice(channelData, frame)>>

\* all sample buffers of length 0..MaxLen
Buffers == UNION {[1..n -> {Fin(v) : v \in SampleValues}] : n \in 0..MaxLen}

\* the audio files explored: channel 0 of the audioBuffer and its sample rate
AudioFiles == [channelData : Buffers, sampleRate : SampleRates]

\* FeatureRecord of every audio file explored; joining the empty function
\* makes the table a function of computed values, each computed once
FeatureTable == [a \in AudioFiles |-> FeatureRecord(a.channelData, a.sampleRate)] @@ <<>>

\* MLAudioAnalyzer.extractFeatures(audioFile)
extractFeatures(audioFile) ==
  IF audioFile \in AudioFiles
    THEN FeatureTable[audioFile]
    ELSE FeatureRecord(audioFile.channelData, audioFile.sampleRate)

\* ------------------------------------------------------------------------
\* PluginMatcher
\* ------------------------------------------------------------------------

Param(id, name, value, min, max, default, unit) ==
  [id |-> id, name |-> name, type |-> "knob", value |-> value,
   min |-> min, max |-> max, default |-> default, unit |-> unit]

\* the static plugin database
PluginCatalog ==
  << [id |-> "eq-vintage", name |-> "Vintage EQ", manufacturer |-> "Audio Corp",
      category |-> "EQ",
      parameters |-> << Param("low", "Low", Zero, FromInt(-20), FromInt(20), Zero, "dB"),
                        Param("mid", "Mid", Zero, FromInt(-20), FromInt(20), Zero, "dB"),
                        Param("high", "High", Zero, FromInt(-20), FromInt(20), Zero, "dB") >>,
      presets |-> << [id |-> "bright", name |-> "Bright"], [id |-> "warm", name |-> "Warm"] >>],
     [id |-> "compressor-vintage", name |-> "Vintage Compressor", manufacturer |-> "Audio Corp",
      category |-> "Dynamics",
      parameters |-> << Param("threshold", "Threshold", FromInt(-10), FromInt(-40), Zero, FromInt(-10), "dB"),
                        Param("ratio", "Ratio", FromInt(4), One, FromInt(20), FromInt(4), ":1"),
                        Param("attack", "Attack", FromInt(10), Fin(100), FromInt(100), FromInt(10), "ms"),
                        Param("release", "Release", FromInt(100), FromInt(10), FromInt(1000), FromInt(100), "ms") >>,
      presets |-> << [id |-> "vocal", name |-> "Vocal"], [id |-> "drum", name |-> "Drum Bus"] >>] >>

\* DynamicRange without the 1e-10 added to the divisor
DynamicRange_NoEpsilon(features) ==
  Div(features.temporalFeatures.energy, features.temporalFeatures.rms)

\* features.temporalFeatures.energy / (features.temporalFeatures.rms + 1e-10)
DynamicRange(features) ==
  Div(features.temporalFeatures.energy, Add(features.temporalFeatures.rms, Epsilon))

\* calculateSimilarity whose harmonic branch tests 'Distortion' only
calculateSimilarity_DistortionOnly(features, plugin) ==
  LET eq == IF plugin.category = "EQ"
              THEN Add(Mul(Min(Div(features.spectralFeatures.centroid, FromInt(8000)), One), Fin(400)),
                       Mul(features.spectralFeatures.flatness, Fin(300)))
              ELSE Zero
      dyn == IF plugin.category = "Dynamics"
               THEN Add(Mul(Min(Div(DynamicRange(features), FromInt(10)), One), Fin(500)),
                        Mul(Min(Div(features.temporalFeatures.zcr, FromInt(1000)), One), Fin(300)))
               ELSE Zero
      harm == IF plugin.category = "Distortion"
                THEN Mul(Sub(One, features.harmonicFeatures.harmonicity), Fin(400))
                ELSE Zero
  IN Min(Add(Add(Add(Zero, eq), dyn), harm), One)

calculateSimilarity(features, plugin) ==
  LET eq == IF plugin.category = "EQ"
              THEN Add(Mul(Min(Div(features.spectralFeatures.centroid, FromInt(8000)), One), Fin(400)),
                       Mul(features.spectralFeatures.flatness, Fin(300)))
              ELSE Zero
      dyn == IF plugin.category = "Dynamics"
               THEN Add(Mul(Min(Div(DynamicRange(features), FromInt(10)), One), Fin(500)),
                        Mul(Min(Div(features.temporalFeatures.zcr, FromInt(1000)), One), Fin(300)))
               ELSE Zero
      harm == IF plugin.category = "Distortion" \/ plugin.category = "Saturation"
                THEN Mul(Sub(One, features.harmonicFeatures.harmonicity), Fin(400))
                ELSE Zero
      score == Add(Add(Add(Zero, eq), dyn), harm)
  IN Min(score, One)

\* placeholder of the code: always 0.5
calculateBandEnergy(spectralFeatures, lowFreq, highFreq) == Fin(500)

\* the value the switch of suggestParameters assigns for one parameter
SuggestedValue(features, param) ==
  CASE param.id = "threshold" ->
         Max(param.min,
             Min(param.max,
                 Sub(Mul(FromInt(20), Log10(Add(features.temporalFeatures.rms, Epsilon))),
                     FromInt(10))))
    [] param.id = "ratio" ->
         Max(param.min, Min(param.max, Add(FromInt(2), DynamicRange(features))))
    [] param.id = "low" ->
         Mul(Sub(calculateBandEnergy(features.spectralFeatures, 0, 200), Fin(500)), FromInt(10))
    [] param.id = "high" ->
         Mul(Sub(calculateBandEnergy(features.spectralFeatures, 5000, 20000), Fin(500)), FromInt(10))
    [] OTHER -> param.default

\* the parameter ids that have a case of their own in the switch
RuleIds == {"threshold", "ratio", "low", "high"}

\* suggestParameters with a switch whose default case assigns nothing
suggestParameters_RulesOnly(features, plugin) ==
  LET ruled == {i \in 1..Len(plugin.parameters) : plugin.parameters[i].id \in RuleIds}
  IN [id \in {plugin.parameters[i].id : i \in ruled} |->
        SuggestedValue(features,
                       plugin.parameters[CHOOSE i \in ruled : plugin.parameters[i].id = id])]

\* suggestions[param.id] for every parameter, a later parameter with the same
\* id overwriting an earlier one
suggestParameters(features, plugin) ==
  LET ids == {plugin.parameters[i].id : i \in 1..Len(plugin.parameters)}
      last(id) == CHOOSE i \in 1..Len(plugin.parameters) :
                    /\ plugin.parameters[i].id = id
                    /\ \A j \in 1..Len(plugin.parameters) : plugin.parameters[j].id = id => j <= i
  IN [id \in ids |-> SuggestedValue(features, plugin.parameters[last(id)])]

calculateConfidence(features, plugin, similarity) ==
  LET c1 == IF plugin.category = "EQ" /\ Gt(features.spectralFeatures.flatness, Fin(700))
              THEN Add(similarity, Fin(200)) ELSE similarity
      c2 == IF /\ plugin.category = "Dynamics"
               /\ Gt(features.temporalFeatures.energy, Mul(features.temporalFeatures.rms, FromInt(5)))
              THEN Add(c1, Fin(300)) ELSE c1
  IN Min(c2, One)

\* (similarity * 100).toFixed(1): the percentage rounded to one decimal
ToFixed1(x) == IF IsFinite(x) THEN Fin(((2 * x.v + 100) \div 200) * 100) ELSE x

Sentence(text) == [text |-> text, percent |-> Zero]

\* generateDescription without the fallback sentence: the descriptions array
\* as the category rules leave it
generateDescription_NoFallback(features, plugin, similarity) ==
  (IF plugin.category = "EQ" /\ Gt(features.spectralFeatures.centroid, FromInt(2000))
     THEN <<Sentence("High frequency content detected - EQ can help balance the spectrum")>>
     ELSE <<>>)
  \o (IF plugin.category = "EQ" /\ Lt(features.spectralFeatures.flatness, Fin(300))
        THEN <<Sentence("Uneven frequency distribution - EQ can smooth the response")>>
        ELSE <<>>)
  \o (IF /\ plugin.category = "Dynamics"
         /\ Gt(Div(features.temporalFeatures.energy, features.temporalFeatures.rms), FromInt(5))
        THEN <<Sentence("High dynamic range detected - compression can control peaks")>>
        ELSE <<>>)
  \o (IF plugin.category = "Dynamics" /\ Gt(features.temporalFeatures.zcr, FromInt(500))
        THEN <<Sentence("Transient content detected - compression can smooth dynamics")>>
        ELSE <<>>)

\* the descriptions array that generateDescription joins with ". "
generateDescription(features, plugin, similarity) ==
  LET eq1 == IF plugin.category = "EQ" /\ Gt(features.spectralFeatures.centroid, FromInt(2000))
               THEN <<Sentence("High frequency content detected - EQ can help balance the spectrum")>>
               ELSE <<>>
      eq2 == IF plugin.category = "EQ" /\ Lt(features.spectralFeatures.flatness, Fin(300))
               THEN <<Sentence("Uneven frequency distribution - EQ can smooth the response")>>
               ELSE <<>>
      dynamicRange == Div(features.temporalFeatures.energy, features.temporalFeatures.rms)
      dy1 == IF plugin.category = "Dynamics" /\ Gt(dynamicRange, FromInt(5))
               THEN <<Sentence("High dynamic range detected - compression can control peaks")>>
               ELSE <<>>
      dy2 == IF plugin.category = "Dynamics" /\ Gt(features.temporalFeatures.zcr, FromInt(500))
               THEN <<Sentence("Transient content detected - compression can smooth dynamics")>>
               ELSE <<>>
      descriptions == eq1 \o eq2 \o dy1 \o dy2
  IN IF Len(descriptions) = 0
       THEN << [text |-> "This plugin scored {percent}% similarity based on audio analysis",
                percent |-> ToFixed1(Mul(similarity, FromInt(100)))] >>
       ELSE descriptions

\* the comparator (a, b) => b.similarity - a.similarity; sort reads NaN as +0
CompareMatches(a, b) ==
  LET d == Sub(b.similarity, a.similarity)
  IN IF IsNaN(d) THEN 0 ELSE IF d.k = "inf" THEN d.v ELSE SgnI(d.v)

\* Array.prototype.sort: stable; x goes before the first element it compares
\* smaller than (insertion from the right keeps equal elements in order)
\* an unstable sort: x goes before the elements it compares equal to
RECURSIVE InsertSorted_BeforeEqual(_, _)
InsertSorted_BeforeEqual(sorted, x) ==
  IF sorted = <<>> THEN <<x>>
  ELSE IF CompareMatches(x, sorted[Len(sorted)]) <= 0
         THEN InsertSorted_BeforeEqual(SubSeq(sorted, 1, Len(sorted) - 1), x)
                \o <<sorted[Len(sorted)]>>
         ELSE sorted \o <<x>>

RECURSIVE InsertSorted(_, _)
InsertSorted(sorted, x) ==
  IF sorted = <<>> THEN <<x>>
  ELSE LET lastOne == sorted[Len(sorted)]
       IN IF CompareMatches(x, lastOne) < 0
            THEN InsertSorted(SubSeq(sorted, 1, Len(sorted) - 1), x) \o <<lastOne>>
            ELSE sorted \o <<x>>

RECURSIVE SortMatches(_)
SortMatches(ms) ==
  IF ms = <<>> THEN <<>>
  ELSE InsertSorted(SortMatches(SubSeq(ms, 1, Len(ms) - 1)), ms[Len(ms)])

\* the PluginMatch pushed for one plugin
MatchWith(features, plugin, similarity) ==
  [pluginId |-> plugin.id,
   similarity |-> similarity,
   suggestedParameters |-> suggestParameters(features, plugin),
   confidence |-> calculateConfidence(features, plugin, similarity),
   description |-> generateDescription(features, plugin, similarity)]

\* the PluginMatch of one loop pass, similarity being computed first
MatchFor(features, plugin) == MatchWith(features, plugin, calculateSimilarity(features, plugin))

\* the matches array after the loop over the database
MatchesOf(features, database) ==
  ToArray([i \in 1..Len(database) |-> MatchFor(features, database[i])])

\* findMatches pushing a match only for the plugins that score above 0
findMatches_SkipZero(file, database) ==
  SortMatches(MatchesOf(extractFeatures(file),
     SelectSeq(database,
        LAMBDA plugin : Gt(calculateSimilarity(extractFeatures(file), plugin), Zero))))

\* the value the promise returned by findMatches resolves to
findMatches(file, database) == SortMatches(MatchesOf(extractFeatures(file), database))

\* ------------------------------------------------------------------------
\* State: one audio file under analysis, and the calls made on it
\* ------------------------------------------------------------------------

VARIABLES
  audioFile,       \* [channelData, sampleRate]: channel 0 of audioBuffer and its rate
  pluginDatabase,  \* PluginMatcher.pluginDatabase
  analysis,        \* outcome of the last extractFeatures call
  pending,         \* values of the findMatches promises not yet delivered
  delivered,       \* value of the last findMatches promise delivered to its caller
  calledWith,      \* history: the argument of the call behind analysis, behind
                   \* each pending promise and behind delivered
  frameInput,      \* [channels, sampleRate, frame]: an audioBuffer and the
                   \* frameSize the frame extractors are called with
  frameOutput,     \* what the frame extractors returned for frameInput last
  instance,        \* AudioContextManager.instance
  audioContext,    \* this.audioContext: 0 for null, or the number of a context
  contexts,        \* the state of every AudioContext constructed, by number
  isPlaying,       \* this.isPlaying
  activeSources,   \* this.activeSources
  onended,         \* source.onended of every source node: the handlers it
                   \* runs, outermost first
  ended,           \* the source nodes whose end event has fired
  tasks,           \* the manager's async calls waiting at their await
  invoked          \* the handlers the last end event ran, in order

analyzerVars == <<audioFile, pluginDatabase, analysis, pending, delivered, calledWith>>

frameVars == <<frameInput, frameOutput>>

managerVars ==
  <<instance, audioContext, contexts, isPlaying, activeSources, onended, ended,
    tasks, invoked>>

vars == <<analyzerVars, frameVars, managerVars>>

\* findMatches promises that may be pending at once
MaxPending == 2

NoResult == [status |-> "none", value |-> <<>>]

\* the component's audioFile prop before a file is loaded
NoFile == [channelData |-> <<>>, sampleRate |-> 0]

NoCalls == [analysis |-> NoFile, pending |-> <<>>, delivered |-> NoFile]

\* no frame extractor has been called
FramesIdle ==
  /\ frameInput = [channels |-> <<<<>>>>, sampleRate |-> 0, frame |-> 0]
  /\ frameOutput = NoResult

\* the module is loaded: no getInstance call yet, no source node created
ManagerUnused ==
  /\ instance = "undefined"
  /\ audioContext = 0
  /\ contexts = <<>>
  /\ isPlaying = FALSE
  /\ activeSources = <<>>
  /\ onended = <<>>
  /\ ended = {}
  /\ tasks = <<>>
  /\ invoked = <<>>

Init ==
  /\ audioFile \in AudioFiles
  /\ pluginDatabase = PluginCatalog
  /\ analysis = NoResult
  /\ pending = <<>>
  /\ delivered = NoResult
  /\ calledWith = NoCalls
  /\ FramesIdle
  /\ ManagerUnused

\* extractFeatures keeping its first record in a static field and returning
\* it to every later call, whatever the argument
ExtractFeatures_Memoized ==
  /\ analysis' = IF analysis.status = "returned"
                   THEN analysis
                   ELSE [status |-> "returned", value |-> extractFeatures(audioFile)]
  /\ calledWith' = [calledWith EXCEPT !.analysis = audioFile]
  /\ UNCHANGED <<audioFile, pluginDatabase, pending, delivered>>
  /\ UNCHANGED <<frameVars, managerVars>>

\* MLAudioAnalyzer.extractFeatures(audioFile): the code has no throw; it
\* always returns a record
ExtractFeatures ==
  /\ analysis' = [status |-> "returned",
                  value |-> extractFeatures(audioFile)]
  /\ calledWith' = [calledWith EXCEPT !.analysis = audioFile]
  /\ UNCHANGED <<audioFile, pluginDatabase, pending, delivered>>
  /\ UNCHANGED <<frameVars, managerVars>>

\* findMatches sorting this.pluginDatabase itself by plugin id, descending,
\* before it walks it
CallFindMatches_SortsCatalog ==
  /\ Len(pending) < MaxPending
  /\ pluginDatabase' = <<pluginDatabase[2], pluginDatabase[1]>>
  /\ pending' = Append(pending, findMatches(audioFile, pluginDatabase'))
  /\ calledWith' = [calledWith EXCEPT !.pending = Append(@, audioFile)]
  /\ UNCHANGED <<audioFile, analysis, delivered>>
  /\ UNCHANGED <<frameVars, managerVars>>

\* PluginMatcher.findMatches(audioFile): the body runs to its return at the
\* call; the promise holds the sorted array
CallFindMatches ==
  /\ Len(pending) < MaxPending
  /\ pending' = Append(pending, findMatches(audioFile, pluginDatabase))
  /\ calledWith' = [calledWith EXCEPT !.pending = Append(@, audioFile)]
  /\ UNCHANGED <<audioFile, pluginDatabase, analysis, delivered>>
  /\ UNCHANGED <<frameVars, managerVars>>

\* the caller's await continues with the value of the oldest promise
ResolveFindMatches ==
  /\ pending # <<>>
  /\ delivered' = [status |-> "resolved", value |-> Head(pending)]
  /\ pending' = Tail(pending)
  /\ calledWith' = [calledWith EXCEPT !.delivered = Head(calledWith.pending),
                                      !.pending = Tail(@)]
  /\ UNCHANGED <<audioFile, pluginDatabase, analysis>>
  /\ UNCHANGED <<frameVars, managerVars>>

Next == ExtractFeatures \/ CallFindMatches \/ ResolveFindMatches

Spec == Init /\ [][Next]_vars

\* ------------------------------------------------------------------------
\* Calls on several files: the component's audioFile prop changes while
\* earlier calls are still pending
\* ------------------------------------------------------------------------

\* the files the prop takes in turn
Playlist ==
  {[channelData |-> <<Fin(500), Fin(0), Fin(-1000), Fin(500)>>, sampleRate |-> 1000],
   [channelData |-> <<Fin(-1000), Fin(500)>>, sampleRate |-> 1000],
   [channelData |-> <<Fin(500), Fin(500), Fin(0), Fin(-1000), Fin(0), Fin(500)>>,
    sampleRate |-> 100]}

InitFiles ==
  /\ audioFile \in Playlist
  /\ pluginDatabase = PluginCatalog
  /\ analysis = NoResult
  /\ pending = <<>>
  /\ delivered = NoResult
  /\ calledWith = NoCalls
  /\ FramesIdle
  /\ ManagerUnused

\* the parent renders the component with another file
SelectFile ==
  /\ audioFile' \in Playlist \ {audioFile}
  /\ UNCHANGED <<pluginDatabase, analysis, pending, delivered, calledWith>>
  /\ UNCHANGED <<frameVars, managerVars>>

NextFiles == Next \/ SelectFile

SpecFiles == InitFiles /\ [][NextFiles]_vars

\* ------------------------------------------------------------------------
\* The frame extractors on an audioBuffer that grows past the frame and whose
\* other channel changes
\* ------------------------------------------------------------------------

\* audioBuffer.getChannelData(channel)
getChannelData(audioBuffer, channel) == audioBuffer.channels[channel + 1]

\* the frameSize values the extractors are called with
FrameSizes == {2, 4}

\* the sample rate of the buffers the extractors are called on: the rate of
\* SampleRates at which bins fall in the chroma range
FrameRates == {1000}

\* the samples written to channel 1
OtherSamples == {0, 500}

\* samples the buffer may hold beyond the frame
MaxTail == 1

\* the four fields of the record that extractFeatures computes from
\* channelData, sampleRate and frameSize
FrameFeaturesWith(channelData, sampleRate, frame, chroma) ==
  [spectralFeatures |-> extractSpectralFeatures(channelData, frame, sampleRate),
   mfcc |-> extractMFCC(channelData, sampleRate, frame),
   chroma |-> chroma,
   tonnetz |-> extractTonnetz(chroma)]

FrameFeatures(channelData, sampleRate, frame) ==
  FrameFeaturesWith(channelData, sampleRate, frame,
                    extractChroma(channelData, sampleRate, frame))

InitFrames ==
  /\ \E frame \in FrameSizes, sampleRate \in FrameRates :
       \E channelData \in {b \in Buffers : Len(b) <= frame} :
          frameInput = [channels |-> <<channelData, <<Zero>>>>,
                        sampleRate |-> sampleRate, frame |-> frame]
  /\ frameOutput = NoResult
  /\ audioFile = NoFile
  /\ pluginDatabase = PluginCatalog
  /\ analysis = NoResult
  /\ pending = <<>>
  /\ delivered = NoResult
  /\ calledWith = NoCalls
  /\ ManagerUnused

\* lines 12-14 and 18, 27-29 of extractFeatures, for the frame size of
\* frameInput: channel 0 and the sample rate are read, the extractors run
ExtractFrameFeatures ==
  /\ frameOutput' = [status |-> "returned",
                     value |-> FrameFeatures(getChannelData(frameInput, 0),
                                             frameInput.sampleRate, frameInput.frame),
                     length |-> Len(getChannelData(frameInput, 0))]
  /\ UNCHANGED <<frameInput, analyzerVars, managerVars>>

\* the caller's buffer holds one more sample of channel 0, past the frame
AppendSample ==
  /\ Len(getChannelData(frameInput, 0)) >= frameInput.frame
  /\ Len(getChannelData(frameInput, 0)) < frameInput.frame + MaxTail
  /\ \E v \in SampleValues :
       frameInput' = [frameInput EXCEPT !.channels[1] = Append(@, Fin(v))]
  /\ UNCHANGED <<frameOutput, analyzerVars, managerVars>>

\* the caller's buffer holds another sample in channel 1
WriteOtherChannel ==
  /\ \E v \in OtherSamples :
       /\ frameInput.channels[2] # <<Fin(v)>>
       /\ frameInput' = [frameInput EXCEPT !.channels[2] = <<Fin(v)>>]
  /\ UNCHANGED <<frameOutput, analyzerVars, managerVars>>

NextFrames == ExtractFrameFeatures \/ AppendSample \/ WriteOtherChannel

SpecFrames == InitFrames /\ [][NextFrames]_vars

\* ------------------------------------------------------------------------
\* AudioContextManager: the singleton, its context, its active sources and
\* the async calls waiting at their await.  The time-keeping fields
\* (suspendedAt, lastPauseTime, actualPlaybackStartTime) hold readings of the
\* context clock and steer no branch; they are left out.
\* ------------------------------------------------------------------------

\* source nodes the players create
MaxSources == 2

\* AudioContexts constructed in one run
MaxContexts == 2

\* async calls of the manager waiting at once
MaxTasks == 2

SourceNodes == 1..MaxSources

Range(seq) == {seq[i] : i \in 1..Len(seq)}

\* this.activeSources.filter(s => s !== source)
Without(seq, source) == SelectSeq(seq, LAMBDA s : s # source)

\* what suspendContext() leaves waiting: nothing without a running context,
\* else the await of audioContext.suspend()
SuspendCall(context, states) ==
  IF context # 0 /\ states[context] = "running"
    THEN <<[op |-> "suspend", context |-> context]>>
    ELSE <<>>

\* what resumeContext() leaves waiting: nothing without a suspended context,
\* else the await of audioContext.resume()
ResumeCall(context, states) ==
  IF context # 0 /\ states[context] = "suspended"
    THEN <<[op |-> "resume", context |-> context]>>
    ELSE <<>>

InitManager ==
  /\ instance = "undefined"
  /\ audioContext = 0
  /\ contexts = <<>>
  /\ isPlaying = FALSE
  /\ activeSources = <<>>
  /\ onended = [s \in SourceNodes |-> <<>>]
  /\ ended = {}
  /\ tasks = <<>>
  /\ invoked = <<>>
  /\ FramesIdle
  /\ audioFile = NoFile
  /\ pluginDatabase = PluginCatalog
  /\ analysis = NoResult
  /\ pending = <<>>
  /\ delivered = NoResult
  /\ calledWith = NoCalls

\* AudioContextManager.getInstance()
GetInstance ==
  /\ instance' = "manager"
  /\ UNCHANGED <<audioContext, contexts, isPlaying, activeSources, onended, ended,
                 tasks, invoked>>
  /\ UNCHANGED <<analyzerVars, frameVars>>

\* getContext(): constructs a context when there is none; a new context is
\* suspended or running, as the browser's autoplay policy decides
GetContext ==
  /\ instance = "manager"
  /\ IF audioContext = 0
       THEN /\ Len(contexts) < MaxContexts
            /\ \E state \in {"suspended", "running"} : contexts' = Append(contexts, state)
            /\ audioContext' = Len(contexts) + 1
       ELSE UNCHANGED <<audioContext, contexts>>
  /\ UNCHANGED <<instance, isPlaying, activeSources, onended, ended, tasks, invoked>>
  /\ UNCHANGED <<analyzerVars, frameVars>>

\* registerSource(source): the source is pushed and its onended is wrapped;
\* the players register a source node once, before it ends
RegisterSource ==
  /\ instance = "manager"
  /\ \E source \in SourceNodes \ ended :
       /\ source \notin Range(activeSources)
       /\ "wrapper" \notin Range(onended[source])
       /\ activeSources' = Append(activeSources, source)
       /\ onended' = [onended EXCEPT ![source] = <<"wrapper">> \o @]
  /\ UNCHANGED <<instance, audioContext, contexts, isPlaying, ended, tasks, invoked>>
  /\ UNCHANGED <<analyzerVars, frameVars>>

\* the player assigns source.onended = () => {...}, as playAudio does after
\* it has registered and started the source
SetOnEnded ==
  /\ \E source \in SourceNodes \ ended :
       /\ onended[source] # <<"client">>
       /\ onended' = [onended EXCEPT ![source] = <<"client">>]
  /\ UNCHANGED <<instance, audioContext, contexts, isPlaying, activeSources, ended,
                 tasks, invoked>>
  /\ UNCHANGED <<analyzerVars, frameVars>>

\* the end event of a source node runs source.onended.  The manager's
\* wrapper removes the source, and with no source left clears isPlaying and
\* calls suspendContext(), then calls the handler it wrapped
EndEvent ==
  /\ Len(tasks) < MaxTasks
  /\ \E source \in SourceNodes \ ended :
       /\ ended' = ended \cup {source}
       /\ invoked' = onended[source]
       /\ IF onended[source] # <<>> /\ Head(onended[source]) = "wrapper"
            THEN /\ activeSources' = Without(activeSources, source)
                 /\ IF activeSources' = <<>>
                      THEN /\ isPlaying' = FALSE
                           /\ tasks' = tasks \o SuspendCall(audioContext, contexts)
                      ELSE UNCHANGED <<isPlaying, tasks>>
            ELSE UNCHANGED <<activeSources, isPlaying, tasks>>
  /\ UNCHANGED <<instance, audioContext, contexts, onended>>
  /\ UNCHANGED <<analyzerVars, frameVars>>

\* stopAllActiveSources(): every source is stopped (its end event follows
\* later), the list is cleared, isPlaying is false
StopAllActiveSources ==
  /\ instance = "manager"
  /\ activeSources' = <<>>
  /\ isPlaying' = FALSE
  /\ UNCHANGED <<instance, audioContext, contexts, onended, ended, tasks, invoked>>
  /\ UNCHANGED <<analyzerVars, frameVars>>

\* setPlayingState(isPlaying), up to the awaits of the call it makes
SetPlayingState ==
  /\ instance = "manager"
  /\ Len(tasks) < MaxTasks
  /\ \E playing \in BOOLEAN :
       /\ isPlaying' = playing
       /\ tasks' = tasks \o (IF playing THEN ResumeCall(audioContext, contexts)
                                         ELSE SuspendCall(audioContext, contexts))
  /\ UNCHANGED <<instance, audioContext, contexts, activeSources, onended, ended, invoked>>
  /\ UNCHANGED <<analyzerVars, frameVars>>

\* closeContext() up to its await: the sources are stopped, and with a
\* context the call waits for audioContext.close()
CloseContext ==
  /\ instance = "manager"
  /\ Len(tasks) < MaxTasks
  /\ activeSources' = <<>>
  /\ isPlaying' = FALSE
  /\ tasks' = tasks \o (IF audioContext # 0
                          THEN <<[op |-> "close", context |-> audioContext]>>
                          ELSE <<>>)
  /\ UNCHANGED <<instance, audioContext, contexts, onended, ended, invoked>>
  /\ UNCHANGED <<analyzerVars, frameVars>>

\* the oldest await settles.  suspend and resume change the state of a
\* context that is not closed; after close the rest of closeContext runs:
\* audioContext = null, isPlaying = false
SettleTask ==
  /\ tasks # <<>>
  /\ tasks' = Tail(tasks)
  /\ CASE Head(tasks).op = "close" ->
            /\ contexts' = [contexts EXCEPT ![Head(tasks).context] = "closed"]
            /\ audioContext' = 0
            /\ isPlaying' = FALSE
       [] Head(tasks).op = "suspend" ->
            /\ contexts' = [contexts EXCEPT ![Head(tasks).context] =
                               IF @ = "closed" THEN @ ELSE "suspended"]
            /\ UNCHANGED <<audioContext, isPlaying>>
       [] Head(tasks).op = "resume" ->
            /\ contexts' = [contexts EXCEPT ![Head(tasks).context] =
                               IF @ = "closed" THEN @ ELSE "running"]
            /\ UNCHANGED <<audioContext, isPlaying>>
  /\ UNCHANGED <<instance, activeSources, onended, ended, invoked>>
  /\ UNCHANGED <<analyzerVars, frameVars>>

NextManager ==
  \/ GetInstance \/ GetContext \/ RegisterSource \/ SetOnEnded \/ EndEvent
  \/ StopAllActiveSources \/ SetPlayingState \/ CloseContext \/ SettleTask

SpecManager == InitManager /\ [][NextManager]_vars

\* ------------------------------------------------------------------------
\* Vocabulary of the properties
\* ------------------------------------------------------------------------

Returned == analysis.status = "returned"
Features == analysis.value
BufferLength == Len(audioFile.channelData)
Silent == \A i \in 1..BufferLength : audioFile.channelData[i] = Zero
Nyquist == Div(FromInt(audioFile.sampleRate), FromInt(2))

\* every array findMatches has returned: the promises pending and the one
\* last delivered
MatchArrays ==
  {pending[i] : i \in 1..Len(pending)}
    \cup (IF delivered.status = "resolved" THEN {delivered.value} ELSE {})

InUnitRange(x) == Ge(x, Zero) /\ Le(x, One)

\* the magnitude spectrum of the analysis frame of every audio file explored
SpectrumTable ==
  [a \in AudioFiles |-> performFFT(Slice(a.channelData, frameSize))] @@ <<>>

\* the magnitude spectrum of the analysis frame of the file under analysis
FrameSpectrum == SpectrumTable[audioFile]

\* the bins of FrameSpectrum (as sequence indices) that the code places
\* strictly between 80 Hz and 8000 Hz and that hold a non-zero magnitude
ChromaBins ==
  LET spectrum == FrameSpectrum
  IN {b \in 1..Len(spectrum) :
        /\ Gt(BinFrequency(b - 1, audioFile.sampleRate, Len(spectrum)), FromInt(80))
        /\ Lt(BinFrequency(b - 1, audioFile.sampleRate, Len(spectrum)), FromInt(8000))
        /\ spectrum[b] # Zero}

AllFinite(features) ==
  /\ \A f \in {"centroid", "bandwidth", "rolloff", "flatness"} :
        IsFinite(features.spectralFeatures[f])
  /\ \A f \in {"zcr", "energy", "rms"} : IsFinite(features.temporalFeatures[f])
  /\ \A f \in {"harmonicity", "inharmonicity", "pitch"} :
        IsFinite(features.harmonicFeatures[f])
  /\ \A i \in 1..Len(features.mfcc) : IsFinite(features.mfcc[i])
  /\ \A i \in 1..Len(features.chroma) : IsFinite(features.chroma[i])
  /\ \A i \in 1..Len(features.tonnetz) : IsFinite(features.tonnetz[i])

\* ------------------------------------------------------------------------
\* Properties
\* ------------------------------------------------------------------------

\* C1: extractFeatures on a zero-length channel-0 buffer fails with an error;
\* it never returns a feature record.  (The code returns one.)
C1_EmptyBufferFails == BufferLength = 0 => analysis.status # "returned"

\* C2: for a silent buffer of length >= 1, extractFeatures returns
\* rolloff = sampleRate / 2.  (The code returns 0 once the spectrum has a bin.)
C2_SilentRolloffIsNyquist ==
  (Returned /\ Silent /\ BufferLength >= 1) => Features.spectralFeatures.rolloff = Nyquist

\* C3: for a silent buffer of length >= 1, centroid, bandwidth, flatness,
\* harmonicity, rms and zcr are all 0.
C3_SilentDescriptorsZero ==
  (Returned /\ Silent /\ BufferLength >= 1) =>
     /\ Features.spectralFeatures.centroid = Zero
     /\ Features.spectralFeatures.bandwidth = Zero
     /\ Features.spectralFeatures.flatness = Zero
     /\ Features.harmonicFeatures.harmonicity = Zero
     /\ Features.temporalFeatures.rms = Zero
     /\ Features.temporalFeatures.zcr = Zero

\* a silent buffer whose spectrum has two bins or more has been analysed
C3_Witness == Returned /\ Silent /\ BufferLength >= 4

\* C4: harmonicity + inharmonicity = 1, and both lie in [0, 1], for every
\* input buffer.
C4_HarmonicComplement ==
  Returned =>
     /\ Add(Features.harmonicFeatures.harmonicity, Features.harmonicFeatures.inharmonicity) = One
     /\ InUnitRange(Features.harmonicFeatures.harmonicity)
     /\ InUnitRange(Features.harmonicFeatures.inharmonicity)

\* a record whose harmonic energy is a proper part of the total energy
C4_Witness ==
  /\ Returned
  /\ Gt(Features.harmonicFeatures.harmonicity, Zero)
  /\ Lt(Features.harmonicFeatures.harmonicity, One)

\* C5: the pitch returned by extractFeatures lies in [80 Hz, 800 Hz] for
\* every buffer and sample rate.  (The code returns sampleRate / minPeriod,
\* which exceeds 800 when sampleRate is no multiple of 800.)
C5_PitchInRange ==
  Returned =>
     /\ Ge(Features.harmonicFeatures.pitch, FromInt(80))
     /\ Le(Features.harmonicFeatures.pitch, FromInt(800))

\* C6: for a buffer of length >= 1 no field of the returned record is NaN or
\* infinite.  (The code divides by a zero period when sampleRate < 800.)
C6_AllFieldsFinite == (Returned /\ BufferLength >= 1) => AllFinite(Features)

\* C7: findMatches returns exactly one match per catalog entry: as many
\* matches as entries, the same set of ids, each id once.
C7_OneMatchPerPlugin ==
  \A ms \in MatchArrays :
     /\ Len(ms) = Len(pluginDatabase)
     /\ {ms[i].pluginId : i \in 1..Len(ms)} = {pluginDatabase[i].id : i \in 1..Len(pluginDatabase)}
     /\ \A i, j \in 1..Len(ms) : ms[i].pluginId = ms[j].pluginId => i = j

\* an array delivered in which the sort has moved a plugin ahead of its
\* catalog position
C7_Witness ==
  /\ delivered.status = "resolved"
  /\ delivered.value[1].pluginId # pluginDatabase[1].id

\* C8: the array returned by findMatches is sorted non-increasing by
\* similarity.  (With the record the code returns for an empty buffer, C1,
\* one similarity is NaN and the order fails.)
C8_SortedBySimilarity ==
  \A ms \in MatchArrays :
     \A i \in 1..(Len(ms) - 1) : Ge(ms[i].similarity, ms[i + 1].similarity)

\* C9: for a buffer of length >= 1, every match has similarity and confidence
\* in [0, 1].
C9_ScoresInUnitRange ==
  BufferLength >= 1 =>
     \A ms \in MatchArrays :
        \A i \in 1..Len(ms) : InUnitRange(ms[i].similarity) /\ InUnitRange(ms[i].confidence)

\* a match of a non-empty buffer whose confidence was boosted above its
\* similarity
C9_Witness ==
  /\ BufferLength >= 1
  /\ \E ms \in MatchArrays :
        \E i \in 1..Len(ms) : Gt(ms[i].confidence, ms[i].similarity)

\* C10: for a buffer of length >= 1 the record has 13 mfcc coefficients,
\* 12 chroma elements and 3 tonnetz elements.
C10_VectorLengths ==
  (Returned /\ BufferLength >= 1) =>
     /\ Len(Features.mfcc) = 13
     /\ Len(Features.chroma) = 12
     /\ Len(Features.tonnetz) = 3

\* a record of a non-empty buffer with energy in the chroma range
C10_Witness ==
  /\ Returned
  /\ BufferLength >= 1
  /\ \E i \in 1..12 : Gt(Features.chroma[i], Zero)

\* C11: the chroma vector has only non-negative elements; it sums to 1 when a
\* bin strictly between 80 Hz and 8000 Hz has non-zero magnitude, and is all
\* zero otherwise.  The sum is 1 up to the rounding of the twelve quotients
\* chroma[c] / sum, each of which loses less than one unit of resolution.
C11_ChromaNormalized ==
  Returned =>
     /\ \A c \in 1..12 : Ge(Features.chroma[c], Zero)
     /\ IF ChromaBins # {}
          THEN /\ Le(SumSeq(Features.chroma), One)
               /\ Ge(SumSeq(Features.chroma), Sub(One, Fin(12)))
          ELSE \A c \in 1..12 : Features.chroma[c] = Zero

\* a record whose chroma was normalized over two contributing bins
C11_Witness == Returned /\ Cardinality(ChromaBins) >= 2

\* C12: the spectral flatness of every returned record lies in [0, 1].
C12_FlatnessInUnitRange ==
  Returned => InUnitRange(Features.spectralFeatures.flatness)

\* what findMatches returns for a file when it is the only call ever made:
\* computed from the file and the catalog as loaded, with no table and no state
MatchesAlone(file) ==
  SortMatches(MatchesOf(FeatureRecord(file.channelData, file.sampleRate), PluginCatalog))

C14_InputsUnchanged ==
  [][audioFile' = audioFile /\ pluginDatabase' = pluginDatabase]_vars

\* calls of both operations have completed on a non-empty file
C14_Witness ==
  /\ Returned
  /\ delivered.status = "resolved"
  /\ pending # <<>>
  /\ BufferLength >= 1
  /\ pluginDatabase = PluginCatalog

\* C15: the analysis frame is the first min(frameSize, L) samples of channel
\* 0, unpadded (slice(0, end) is checked for every end up to past the buffer
\* as well as for frameSize), and the spectrum of an N-sample frame has
\* floor(N / 2) entries, none negative; it is the spectrum the record's
\* centroid is computed from.
C15_FrameAndSpectrumLength ==
  Returned =>
     /\ \A end \in (0..(MaxLen + 1)) \cup {frameSize} :
           /\ Len(Slice(audioFile.channelData, end)) = MinI(end, BufferLength)
           /\ \A i \in 1..MinI(end, BufferLength) :
                 Slice(audioFile.channelData, end)[i] = audioFile.channelData[i]
     /\ LET spectrum == FrameSpectrum
        IN /\ Len(spectrum) = MinI(frameSize, BufferLength) \div 2
           /\ \A b \in 1..Len(spectrum) : Ge(spectrum[b], Zero)
           /\ Features.spectralFeatures.centroid =
                 calculateSpectralCentroid(spectrum, audioFile.sampleRate)

\* a frame of odd length, cut short by slice for some end, with energy in its
\* spectrum
C15_Witness ==
  /\ Returned
  /\ BufferLength >= 3
  /\ BufferLength % 2 = 1
  /\ LET spectrum == FrameSpectrum
     IN \E b \in 1..Len(spectrum) : Gt(spectrum[b], Zero)

\* the ids a plugin declares
ParameterIds(plugin) == {plugin.parameters[i].id : i \in 1..Len(plugin.parameters)}

\* C16: in every array findMatches returns, every catalog plugin has a match
\* whose suggestedParameters has exactly the plugin's declared parameter ids
\* as keys, and every id without a case in the switch carries the parameter's
\* declared default.
C16_OneSuggestionPerParameter ==
  \A matches \in MatchArrays :
    \A j \in 1..Len(pluginDatabase) :
      /\ \E k \in 1..Len(matches) : matches[k].pluginId = pluginDatabase[j].id
      /\ \A k \in 1..Len(matches) :
           matches[k].pluginId = pluginDatabase[j].id =>
              /\ DOMAIN matches[k].suggestedParameters = ParameterIds(pluginDatabase[j])
              /\ \A i \in 1..Len(pluginDatabase[j].parameters) :
                    pluginDatabase[j].parameters[i].id \notin RuleIds =>
                       matches[k].suggestedParameters[pluginDatabase[j].parameters[i].id]
                          = pluginDatabase[j].parameters[i].default

\* an array delivered for a non-empty file in which mid, attack and release
\* carry their defaults 0, 10 and 100
C16_Witness ==
  /\ delivered.status = "resolved"
  /\ BufferLength >= 1
  /\ \E k, l \in 1..Len(delivered.value) :
        /\ delivered.value[k].pluginId = "eq-vintage"
        /\ delivered.value[k].suggestedParameters["mid"] = Zero
        /\ delivered.value[l].pluginId = "compressor-vintage"
        /\ delivered.value[l].suggestedParameters["attack"] = FromInt(10)
        /\ delivered.value[l].suggestedParameters["release"] = FromInt(100)

\* C17: in every array findMatches returns, each suggested value lies within
\* the declared [min, max] of its parameter.
C17_SuggestionsInRange ==
  \A matches \in MatchArrays :
    \A k \in 1..Len(matches) :
      \A j \in 1..Len(pluginDatabase) :
        matches[k].pluginId = pluginDatabase[j].id =>
          \A i \in 1..Len(pluginDatabase[j].parameters) :
            /\ Ge(matches[k].suggestedParameters[pluginDatabase[j].parameters[i].id],
                  pluginDatabase[j].parameters[i].min)
            /\ Le(matches[k].suggestedParameters[pluginDatabase[j].parameters[i].id],
                  pluginDatabase[j].parameters[i].max)

\* C18: one extractFeatures call invokes the spectral transform exactly once.
C18_SpectrumComputedOnce ==
  Returned => Len(performFFTCalls(calledWith.analysis.channelData, frameSize)) = 1

\* C19: for a frame of N >= 2 samples, odd N included, the frequency the
\* descriptors give bin k is k * sampleRate / N.
C19_BinFrequency ==
  (Returned /\ BufferLength >= 2) =>
     \A k \in 0..(Len(FrameSpectrum) - 1) :
        BinFrequency(k, audioFile.sampleRate, Len(FrameSpectrum))
          = Div(FromInt(k * audioFile.sampleRate), FromInt(MinI(frameSize, BufferLength)))

\* element i + 1 is the sum of the squared magnitudes of bins 0..i
CumulativeEnergy(spectrum) ==
  ToArray([n \in 1..Len(spectrum) |->
     SumSeq([b \in 1..n |-> Mul(spectrum[b], spectrum[b])])])

\* the smallest bin whose cumulative energy is at least 0.85 times that of
\* all bins; cumulative is CumulativeEnergy of a spectrum with a bin or more
SmallestRolloffBin(cumulative) ==
  CHOOSE i \in 0..(Len(cumulative) - 1) :
     /\ Ge(cumulative[i + 1], Mul(cumulative[Len(cumulative)], Fin(850)))
     /\ \A j \in 0..(i - 1) :
           Lt(cumulative[j + 1], Mul(cumulative[Len(cumulative)], Fin(850)))

\* the total energy of the frame's spectrum is not zero
HasEnergy(cumulative) ==
  /\ cumulative # <<>>
  /\ cumulative[Len(cumulative)] # Zero

\* C20: when the spectrum has non-zero total energy, the rolloff of the record
\* is the frequency i * sampleRate / (2 * spectrum.length) of the smallest bin
\* i whose cumulative energy over bins 0..i is at least 0.85 times the total.
C20_RolloffSmallestBin ==
  Returned =>
     LET cumulative == CumulativeEnergy(FrameSpectrum)
     IN HasEnergy(cumulative) =>
          Features.spectralFeatures.rolloff
            = Div(FromInt(SmallestRolloffBin(cumulative) * audioFile.sampleRate),
                  FromInt(2 * Len(cumulative)))

\* a spectrum whose first two bins hold energy but less than 0.85 of the
\* total: the rolloff lies at a later bin
C20_Witness ==
  /\ Returned
  /\ LET cumulative == CumulativeEnergy(FrameSpectrum)
     IN /\ Len(cumulative) >= 3
        /\ Gt(cumulative[1], Zero)
        /\ Gt(cumulative[2], cumulative[1])
        /\ SmallestRolloffBin(cumulative) >= 2
  /\ Gt(Features.spectralFeatures.rolloff, Zero)

\* the candidate periods of the file under analysis that have a valid index
ValidPeriods ==
  {p \in (audioFile.sampleRate \div 800)..(audioFile.sampleRate \div 80) :
     BufferLength - p >= 1}

\* C21: the pitch of the record is sampleRate / p for a candidate period p
\* that maximizes the mean of x[i] * x[i + p] over the valid indices, also
\* when that mean is zero or negative at every candidate period.
C21_PitchMaximizesAutocorrelation ==
  (Returned /\ ValidPeriods # {}) =>
     \E p \in ValidPeriods :
        /\ Features.harmonicFeatures.pitch = Div(FromInt(audioFile.sampleRate), FromInt(p))
        /\ \A q \in ValidPeriods :
              Le(Autocorr(audioFile.channelData, q), Autocorr(audioFile.channelData, p))

\* plugin categories: the two of the catalog, the two of the harmonic rule and
\* one that no rule names
Categories == {"EQ", "Dynamics", "Distortion", "Saturation", "Reverb"}

\* the score the claim gives a plugin of a category, for a given quotient of
\* energy and rms
SimilarityScore(features, category, energyOverRms) ==
  CASE category = "EQ" ->
         Min(Add(Mul(Fin(400), Min(Div(features.spectralFeatures.centroid, FromInt(8000)), One)),
                 Mul(Fin(300), features.spectralFeatures.flatness)),
             One)
    [] category = "Dynamics" ->
         Min(Add(Mul(Fin(500), Min(Div(energyOverRms, FromInt(10)), One)),
                 Mul(Fin(300), Min(Div(features.temporalFeatures.zcr, FromInt(1000)), One))),
             One)
    [] category \in {"Distortion", "Saturation"} ->
         Mul(Fin(400), Sub(One, features.harmonicFeatures.harmonicity))
    [] OTHER -> Zero

\* the catalog's first plugin with its category replaced
PluginOfCategory(category) == [PluginCatalog[1] EXCEPT !.category = category]

\* the similarity of every match returned and of a plugin of every category
\* is the score of the claim, for a given quotient of energy and rms
SimilarityIsScore(features, energyOverRms) ==
  /\ \A category \in Categories :
        calculateSimilarity(features, PluginOfCategory(category))
          = SimilarityScore(features, category, energyOverRms)
  /\ \A matches \in MatchArrays :
        \A k \in 1..Len(matches) :
           \A j \in 1..Len(pluginDatabase) :
              matches[k].pluginId = pluginDatabase[j].id =>
                 matches[k].similarity
                   = SimilarityScore(features, pluginDatabase[j].category, energyOverRms)

\* C22 as stated: the Dynamics score is built on energy / rms.
C22_SimilarityFormula_AsStated ==
  Returned =>
     SimilarityIsScore(Features, Div(Features.temporalFeatures.energy,
                                     Features.temporalFeatures.rms))

\* C22: calculateSimilarity scores EQ as min(0.4*min(centroid/8000,1) +
\* 0.3*flatness, 1), Dynamics as min(0.5*min((energy/(rms + 1e-10))/10,1) +
\* 0.3*min(zcr/1000,1), 1), Distortion and Saturation as 0.4*(1-harmonicity)
\* and every other category as 0.
C22_SimilarityFormula ==
  Returned =>
     SimilarityIsScore(Features, Div(Features.temporalFeatures.energy,
                                     Add(Features.temporalFeatures.rms, Epsilon)))

\* a record of a sounding buffer with an array delivered, in which the EQ,
\* Dynamics and Saturation scores are all positive
C22_Witness ==
  /\ Returned
  /\ delivered.status = "resolved"
  /\ ~Silent
  /\ \A category \in {"EQ", "Dynamics", "Saturation"} :
        Gt(calculateSimilarity(Features, PluginOfCategory(category)), Zero)

\* the boost the claim adds to the similarity of a plugin of a category
ConfidenceBoost(features, category) ==
  IF category = "EQ" /\ Gt(features.spectralFeatures.flatness, Fin(700)) THEN Fin(200)
  ELSE IF /\ category = "Dynamics"
          /\ Gt(features.temporalFeatures.energy,
                Mul(FromInt(5), features.temporalFeatures.rms))
         THEN Fin(300)
  ELSE Zero

\* a match of the file under analysis has the confidence of the claim
ConfidenceAsClaimed(features, match, category) ==
  /\ match.confidence
       = Min(Add(match.similarity, ConfidenceBoost(features, category)), One)
  /\ Ge(match.confidence, match.similarity)

\* C23: every match has confidence = min(similarity + boost, 1), boost being
\* 0.2 for EQ when flatness > 0.7, 0.3 for Dynamics when energy > 5 * rms and
\* 0 otherwise, and so confidence >= similarity.
C23_ConfidenceFormula ==
  \A matches \in MatchArrays :
    \A k \in 1..Len(matches) :
      \A j \in 1..Len(pluginDatabase) :
        matches[k].pluginId = pluginDatabase[j].id =>
          ConfidenceAsClaimed(extractFeatures(audioFile), matches[k],
                              pluginDatabase[j].category)

\* whether a description is the fallback sentence alone
IsGeneric(description) ==
  /\ Len(description) = 1
  /\ description[1].text = "This plugin scored {percent}% similarity based on audio analysis"

\* whether a category-specific rule of generateDescription pushes a sentence
SpecificRuleFired(features, category) ==
  \/ /\ category = "EQ"
     /\ \/ Gt(features.spectralFeatures.centroid, FromInt(2000))
        \/ Lt(features.spectralFeatures.flatness, Fin(300))
  \/ /\ category = "Dynamics"
     /\ \/ Gt(Div(features.temporalFeatures.energy, features.temporalFeatures.rms), FromInt(5))
        \/ Gt(features.temporalFeatures.zcr, FromInt(500))

\* a description is non-empty, and generic exactly when no rule fired
DescriptionAsClaimed(features, description, category) ==
  /\ Len(description) >= 1
  /\ IsGeneric(description) <=> ~SpecificRuleFired(features, category)

\* C24: the description of every match is non-empty and is the generic
\* sentence exactly when no category-specific rule fired; for a category
\* other than EQ and Dynamics it is always the generic sentence.
C24_DescriptionFallback ==
  /\ \A matches \in MatchArrays :
       \A k \in 1..Len(matches) :
         \A j \in 1..Len(pluginDatabase) :
           matches[k].pluginId = pluginDatabase[j].id =>
             DescriptionAsClaimed(extractFeatures(audioFile), matches[k].description,
                                  pluginDatabase[j].category)
  /\ Returned =>
       \A category \in Categories \ {"EQ", "Dynamics"} :
          IsGeneric(generateDescription(Features, PluginOfCategory(category), Zero))

\* an array delivered for a non-empty file with one generic description and
\* one made of a specific sentence
C24_Witness ==
  /\ delivered.status = "resolved"
  /\ Returned
  /\ BufferLength >= 1
  /\ \E k, l \in 1..Len(delivered.value) :
        /\ IsGeneric(delivered.value[k].description)
        /\ ~IsGeneric(delivered.value[l].description)

\* C25: whenever a confidence boost is applied to a match (EQ with flatness >
\* 0.7, Dynamics with energy > 5 * rms), its description holds a specific
\* justification and is not the generic sentence.
C25_BoostIsJustified ==
  \A matches \in MatchArrays :
    \A k \in 1..Len(matches) :
      \A j \in 1..Len(pluginDatabase) :
        (/\ matches[k].pluginId = pluginDatabase[j].id
         /\ Gt(ConfidenceBoost(extractFeatures(audioFile), pluginDatabase[j].category), Zero))
          => ~IsGeneric(matches[k].description)

\* C26: buffers of one sample rate whose channel 0 agrees on the frame give
\* the same spectralFeatures, mfcc, chroma and tonnetz, whatever channel 0
\* holds past the frame and whatever the other channel holds: a call made
\* after the buffer grew or its other channel changed returns what the call
\* before returned.
C26_FrameFeaturesDependOnFrameOnly ==
  [][(frameOutput.status = "returned" /\ frameOutput'.status = "returned")
       => frameOutput'.value = frameOutput.value]_vars

\* a call on a buffer longer than its frame of 4 samples, with a changed
\* other channel, a centroid above 0 and chroma energy
C26_Witness ==
  /\ frameOutput.status = "returned"
  /\ frameInput.frame = 4
  /\ frameOutput.length > frameInput.frame
  /\ frameInput.channels[2] # <<Zero>>
  /\ Gt(frameOutput.value.spectralFeatures.centroid, Zero)
  /\ Gt(SumSeq(frameOutput.value.chroma), Zero)

\* the position of a plugin in the catalog
CatalogIndex(pluginId) ==
  CHOOSE j \in 1..Len(pluginDatabase) : pluginDatabase[j].id = pluginId

\* two matches have the same similarity, as numbers
Tied(a, b) == ~IsNaN(a.similarity) /\ a.similarity = b.similarity

\* C27: matches of equal similarity come out of findMatches in catalog
\* insertion order.
C27_TiesInCatalogOrder ==
  \A matches \in MatchArrays :
    \A k, l \in 1..Len(matches) :
      (k < l /\ Tied(matches[k], matches[l]))
        => CatalogIndex(matches[k].pluginId) < CatalogIndex(matches[l].pluginId)

\* an array delivered for a non-empty file whose two matches are tied
C27_Witness ==
  /\ delivered.status = "resolved"
  /\ BufferLength >= 1
  /\ Len(delivered.value) = 2
  /\ Tied(delivered.value[1], delivered.value[2])

\* a description holds the sentence of the high-dynamic-range rule
HasHighDynamicRangeSentence(description) ==
  \E i \in 1..Len(description) :
     description[i].text = "High dynamic range detected - compression can control peaks"

\* every sample of the file under analysis lies in [-1, 1]
SamplesInUnitRange ==
  \A i \in 1..BufferLength :
     Ge(audioFile.channelData[i], Neg(One)) /\ Le(audioFile.channelData[i], One)

\* C28: for a buffer with every sample in [-1, 1], the Dynamics match has a
\* similarity of at most 0.35, gets no confidence boost, so its confidence
\* equals its similarity, and its description has no high-dynamic-range
\* sentence.
C28_DynamicsNeverBoosted ==
  SamplesInUnitRange =>
    \A matches \in MatchArrays :
      \A k \in 1..Len(matches) :
        \A j \in 1..Len(pluginDatabase) :
          (/\ matches[k].pluginId = pluginDatabase[j].id
           /\ pluginDatabase[j].category = "Dynamics")
            => /\ Le(matches[k].similarity, Fin(350))
               /\ ConfidenceBoost(extractFeatures(audioFile), "Dynamics") = Zero
               /\ ~IsNaN(matches[k].confidence)
               /\ matches[k].confidence = matches[k].similarity
               /\ ~HasHighDynamicRangeSentence(matches[k].description)

\* C29: when the end event of a registered source fires, the source leaves
\* the active list; if no source remains active isPlaying becomes false and
\* suspendContext is called, otherwise isPlaying keeps its value; and the
\* handler the source had when it was registered is invoked after the
\* manager's own.
C29_EndEventRemovesSource ==
  [][\A source \in SourceNodes :
       (/\ source \in Range(activeSources)
        /\ source \notin ended
        /\ source \in ended')
         => /\ source \notin Range(activeSources')
            /\ IF activeSources' = <<>>
                 THEN /\ isPlaying' = FALSE
                      /\ tasks' = tasks \o SuspendCall(audioContext, contexts)
                 ELSE isPlaying' = isPlaying /\ tasks' = tasks
            /\ invoked' # <<>>
            /\ Head(invoked') = "wrapper"]_vars

\* C30: when a closeContext call completes, whatever registerSource and
\* setPlayingState calls ran while it waited, the manager holds no context,
\* has no active source and is not playing.
C30_CloseLeavesNothing ==
  [][(/\ tasks # <<>>
      /\ Head(tasks).op = "close"
      /\ tasks' = Tail(tasks))
       => /\ audioContext' = 0
          /\ activeSources' = <<>>
          /\ isPlaying' = FALSE]_vars

====
